---- MODULE Spec2Model ----
(***************************************************************************)
(* Labeling survey (src/experiment.js): the Tabular Decoder (parseCSV,     *)
(* loadNarrationsCSV) and the Deterministic Sequencer (xmur3, mulberry32,  *)
(* shuffle, seededShuffle, the order-and-count part of main).              *)
(*                                                                         *)
(* A JavaScript string is modelled as a sequence of one-character strings, *)
(* so that "id" is <<"i","d">>; a 32-bit word is a pair <<hi, lo>> of      *)
(* 16-bit halves, so that no intermediate value leaves TLC's integers.     *)
(***************************************************************************)
EXTENDS Integers, Sequences, FiniteSets, TLC

(* ------------------------------ bounds -------------------------------- *)
\* longest free text over CsvAlphabet handed to parseCSV
MaxTextLen == 4

\* most header columns and most data rows of a generated table
MaxCols == 3
MaxRows == 2

\* longest seed string and largest Decoded Table handed to the sequencer
MaxKeyLen == 2
MaxTable == 4

VARIABLES
  text,        \* the fetched CSV text (res.text())
  p,           \* parseCSV's locals: s, i, field, row, rows, inQuotes
  ppc,         \* position in the decoder: "start", "scan", "parsed", "loaded"
  arr,         \* loadNarrationsCSV's local arr: one object per data row
  narrations,  \* the Decoded Table returned by loadNarrationsCSV
  raised,      \* whether the decoder threw instead of returning
  qs,          \* the URL parameters n and seed (null when absent)
  m,           \* main's order-and-count locals and the locals of the shuffle it calls
  plans,       \* the Session Plans (items) of the invocations of main completed so far
  pid,         \* the participant id
  at,          \* the position of jsPsych in the timeline, 0-based; its length once it has ended
  dom,         \* the form of the narration trial on the page
  labelBank,   \* main's labelBank
  data,        \* the records passed to jsPsych.data.write, in the order written
  posts,       \* the POSTs issued with fetch, in the order issued, each with its outcome
  fin,         \* position in on_finish: "idle", "awaiting", "submitted", "saved"
  saved,       \* the local files saved with localSave
  alerted      \* the alert of the Next handler that is open: "none", "label", "rating"

decoderVars == <<text, p, ppc, arr, raised>>
sequencerVars == <<qs, m, plans>>
sessionVars == <<pid, at, dom, labelBank, data, posts, fin, saved, alerted>>
vars ==
  <<text, p, ppc, arr, narrations, raised, qs, m, plans,
    pid, at, dom, labelBank, data, posts, fin, saved, alerted>>

(* --------------------------- string helpers --------------------------- *)
Quote == "\""
Comma == ","
LF == "\n"
CR == "\r"

\* String.prototype.trim strips these (the ones the modelled alphabets hold)
WhiteSpace == {" ", "\t", "\n", "\r", "\f"}

UpperLetters == <<"A","B","C","D","E","F","G","H","I","J","K","L","M",
                  "N","O","P","Q","R","S","T","U","V","W","X","Y","Z">>
LowerLetters == <<"a","b","c","d","e","f","g","h","i","j","k","l","m",
                  "n","o","p","q","r","s","t","u","v","w","x","y","z">>

\* one character of String.prototype.toLowerCase
LowerChar(c) ==
  IF \E k \in 1..26 : UpperLetters[k] = c
    THEN LowerLetters[CHOOSE k \in 1..26 : UpperLetters[k] = c]
    ELSE c

ToLowerCase(str) == [k \in 1..Len(str) |-> LowerChar(str[k])]

RECURSIVE TrimStart(_)
TrimStart(str) ==
  IF str # <<>> /\ Head(str) \in WhiteSpace THEN TrimStart(Tail(str)) ELSE str

RECURSIVE TrimEnd(_)
TrimEnd(str) ==
  IF str # <<>> /\ str[Len(str)] \in WhiteSpace
    THEN TrimEnd(SubSeq(str, 1, Len(str) - 1))
    ELSE str

\* String.prototype.trim
Trim(str) == TrimEnd(TrimStart(str))

\* all sequences over S of length 0..n
RECURSIVE SeqsUpTo(_, _)
SeqsUpTo(S, n) ==
  IF n = 0 THEN {<<>>}
  ELSE LET shorter == SeqsUpTo(S, n - 1)
       IN shorter \cup {Append(q, x) : q \in {r \in shorter : Len(r) = n - 1}, x \in S}

(* ----------------------------- parseCSV ------------------------------- *)
\* text.replace(/\r\n/g, "\n").replace(/\r/g, "\n")
RECURSIVE NormalizeNewlines(_)
NormalizeNewlines(t) ==
  IF t = <<>> THEN <<>>
  ELSE IF Head(t) = CR
    THEN IF Len(t) >= 2 /\ t[2] = LF
           THEN <<LF>> \o NormalizeNewlines(SubSeq(t, 3, Len(t)))
           ELSE <<LF>> \o NormalizeNewlines(Tail(t))
    ELSE <<Head(t)>> \o NormalizeNewlines(Tail(t))

\* the locals of parseCSV before the loop
ParseStart(t) ==
  [s |-> NormalizeNewlines(t), i |-> 0, field |-> <<>>, row |-> <<>>,
   rows |-> <<>>, inQuotes |-> FALSE]

\* s[k] for a 0-based k; "undefined" past the end
CharAt(s, k) == IF k >= 0 /\ k < Len(s) THEN s[k + 1] ELSE "undefined"

\* row.push(field); field = ""
endField(st) == [st EXCEPT !.row = Append(st.row, st.field), !.field = <<>>]

\* rows.push(row); row = []
endRow(st) == [st EXCEPT !.rows = Append(st.rows, st.row), !.row = <<>>]

\* a mutation of ParseStep: every double-quote inside quotes closes the field,
\* a doubled one is not decoded
ParseStepNoEscape(st) ==
  LET c == CharAt(st.s, st.i) IN
  IF st.inQuotes
    THEN IF c = Quote
           THEN [st EXCEPT !.inQuotes = FALSE, !.i = st.i + 1]
           ELSE [st EXCEPT !.field = Append(st.field, c), !.i = st.i + 1]
    ELSE IF c = Quote THEN [st EXCEPT !.inQuotes = TRUE, !.i = st.i + 1]
         ELSE IF c = Comma THEN [endField(st) EXCEPT !.i = st.i + 1]
         ELSE IF c = LF THEN [endRow(endField(st)) EXCEPT !.i = st.i + 1]
         ELSE [st EXCEPT !.field = Append(st.field, c), !.i = st.i + 1]

\* one iteration of the while loop (i < s.length)
ParseStep(st) ==
  LET c == CharAt(st.s, st.i) IN
  IF st.inQuotes
    THEN IF c = Quote
           THEN IF CharAt(st.s, st.i + 1) = Quote
                  THEN [st EXCEPT !.field = Append(st.field, Quote), !.i = st.i + 2]
                  ELSE [st EXCEPT !.inQuotes = FALSE, !.i = st.i + 1]
           ELSE [st EXCEPT !.field = Append(st.field, c), !.i = st.i + 1]
    ELSE IF c = Quote THEN [st EXCEPT !.inQuotes = TRUE, !.i = st.i + 1]
         ELSE IF c = Comma THEN [endField(st) EXCEPT !.i = st.i + 1]
         ELSE IF c = LF THEN [endRow(endField(st)) EXCEPT !.i = st.i + 1]
         ELSE [st EXCEPT !.field = Append(st.field, c), !.i = st.i + 1]

\* a mutation of ParseEnd: the last row is flushed whatever it holds
ParseEndAlways(st) == endRow(endField(st))

\* after the loop: endField(); if (row.length > 1 || (row.length === 1 && row[0] !== "")) endRow()
ParseEnd(st) ==
  LET f == endField(st) IN
  IF Len(f.row) > 1 \/ (Len(f.row) = 1 /\ f.row[1] # <<>>) THEN endRow(f) ELSE f

RECURSIVE ParseLoop(_)
ParseLoop(st) == IF st.i < Len(st.s) THEN ParseLoop(ParseStep(st)) ELSE ParseEnd(st)

\* parseCSV(text): the rows returned
parseCSV(t) == ParseLoop(ParseStart(t)).rows


(* ------------------------- loadNarrationsCSV -------------------------- *)
\* the value undefined: no string, since every string holds one-character elements
Undefined == <<"undefined">>

\* the value null (enabledKey when no candidate header is present)
Null == <<"null">>

\* String(undefined), the property name an undefined key is converted to
UndefinedName == <<"u","n","d","e","f","i","n","e","d">>

S_narration_id == <<"n","a","r","r","a","t","i","o","n","_","i","d">>
S_id == <<"i","d">>
S_narration_text == <<"n","a","r","r","a","t","i","o","n","_","t","e","x","t">>
S_text == <<"t","e","x","t">>
S_narration == <<"n","a","r","r","a","t","i","o","n">>
S_enabled == <<"e","n","a","b","l","e","d">>
S_include == <<"i","n","c","l","u","d","e">>
S_use == <<"u","s","e">>
S_active == <<"a","c","t","i","v","e">>

\* Array.prototype.indexOf: the 0-based index of the first element equal to x, else -1
IndexOf(a, x) ==
  IF \E k \in 1..Len(a) : a[k] = x
    THEN (CHOOSE k \in 1..Len(a) : a[k] = x /\ \A j \in 1..(k - 1) : a[j] # x) - 1
    ELSE -1

\* a[k] for a 0-based k: undefined outside the array
At(a, k) == IF k >= 0 /\ k < Len(a) THEN a[k + 1] ELSE Undefined

\* x ?? y
Nullish(x, y) == IF x = Undefined THEN y ELSE x

\* o[key] = v on an object modelled as a function from property names to values
Put(o, key, v) == [x \in (DOMAIN o) \cup {key} |-> IF x = key THEN v ELSE o[x]]

\* o[key]: an undefined key names the property "undefined"; a missing property is undefined
Get(o, key) ==
  LET name == IF key = Undefined THEN UndefinedName ELSE key
  IN IF name \in DOMAIN o THEN o[name] ELSE Undefined

\* (v || "").toString().trim()
OrEmptyTrim(v) == IF v = Undefined THEN <<>> ELSE Trim(v)

\* a mutation of RowObject: the cells are stored as parsed, not trimmed
RECURSIVE RowObjectNoTrim(_, _, _, _)
RowObjectNoTrim(headers, r, k, o) ==
  IF k > Len(headers) THEN o
  ELSE RowObjectNoTrim(headers, r, k + 1, Put(o, headers[k], Nullish(At(r, k - 1), <<>>)))

\* headers.forEach((h, i) => { o[h] = (r[i] ?? "").toString().trim(); }) from column k on
RECURSIVE RowObject(_, _, _, _)
RowObject(headers, r, k, o) ==
  IF k > Len(headers) THEN o
  ELSE RowObject(headers, r, k + 1,
                 Put(o, headers[k], Trim(Nullish(At(r, k - 1), <<>>))))

EmptyObject == [x \in {} |-> <<>>]

\* const arr = dataRows.map(r => {...})
BuildArr(headers, dataRows) ==
  [k \in 1..Len(dataRows) |-> RowObject(headers, dataRows[k], 1, EmptyObject)]

\* const idKey = headers[lower.indexOf("narration_id")] ?? headers[lower.indexOf("id")] ?? headers[0]
IdKey(headers, lower) ==
  Nullish(At(headers, IndexOf(lower, S_narration_id)),
  Nullish(At(headers, IndexOf(lower, S_id)),
          At(headers, 0)))

\* const textKey = headers[..."narration_text"] ?? headers[..."text"] ?? headers[..."narration"] ?? headers[1]
TextKey(headers, lower) ==
  Nullish(At(headers, IndexOf(lower, S_narration_text)),
  Nullish(At(headers, IndexOf(lower, S_text)),
  Nullish(At(headers, IndexOf(lower, S_narration)),
          At(headers, 1))))

EnabledCandidates == <<S_enabled, S_include, S_use, S_active>>

\* the for loop over ["enabled","include","use","active"] from candidate k on; null when none
RECURSIVE EnabledKeyFrom(_, _, _)
EnabledKeyFrom(headers, lower, k) ==
  IF k > Len(EnabledCandidates) THEN Null
  ELSE IF IndexOf(lower, EnabledCandidates[k]) # -1
    THEN headers[IndexOf(lower, EnabledCandidates[k]) + 1]
    ELSE EnabledKeyFrom(headers, lower, k + 1)

EnabledKey(headers, lower) == EnabledKeyFrom(headers, lower, 1)

TruthyWords == {<<"1">>, <<"t","r","u","e">>, <<"y","e","s">>, <<"y">>}

\* const truthy = v => /^(1|true|yes|y)$/i.test((v || "").toString().trim())
truthy(v) == ToLowerCase(OrEmptyTrim(v)) \in TruthyWords

\* out.push({ narration_id, narration_text })
Record(id, txt) ==
  [x \in {S_narration_id, S_narration_text} |-> IF x = S_narration_id THEN id ELSE txt]

\* a mutation of FilterRow: only an empty id skips the row
FilterRowIdOnly(row, idKey, textKey, enabledKey, out) ==
  LET narration_id == OrEmptyTrim(Get(row, idKey))
      narration_text == OrEmptyTrim(Get(row, textKey))
  IN IF narration_id = <<>> THEN out
     ELSE IF enabledKey # Null /\ enabledKey # <<>> /\ ~truthy(Get(row, enabledKey)) THEN out
     ELSE Append(out, Record(narration_id, narration_text))

\* one pass of "for (const row of arr)": out with the row pushed, or out when the row is skipped
FilterRow(row, idKey, textKey, enabledKey, out) ==
  LET narration_id == OrEmptyTrim(Get(row, idKey))
      narration_text == OrEmptyTrim(Get(row, textKey))
  IN IF narration_id = <<>> \/ narration_text = <<>> THEN out
     ELSE IF enabledKey # Null /\ enabledKey # <<>> /\ ~truthy(Get(row, enabledKey)) THEN out
     ELSE Append(out, Record(narration_id, narration_text))

RECURSIVE FilterLoop(_, _, _, _, _, _)
FilterLoop(a, k, idKey, textKey, enabledKey, out) ==
  IF k > Len(a) THEN out
  ELSE FilterLoop(a, k + 1, idKey, textKey, enabledKey,
                  FilterRow(a[k], idKey, textKey, enabledKey, out))

\* rows[0].map(h => h.trim())
Headers(rows) == [k \in 1..Len(rows[1]) |-> Trim(rows[1][k])]

\* loadNarrationsCSV from "const headers = rows[0].map(...)" on: the locals arr and out;
\* rows[0] of an empty rows is undefined and .map on it throws a TypeError
LoadBody(rows) ==
  IF rows = <<>> THEN [arr |-> <<>>, out |-> <<>>, raised |-> TRUE]
  ELSE LET headers == Headers(rows)
           dataRows == Tail(rows)
           a == BuildArr(headers, dataRows)
           lower == [k \in 1..Len(headers) |-> ToLowerCase(headers[k])]
       IN [arr |-> a,
           out |-> FilterLoop(a, 1, IdKey(headers, lower), TextKey(headers, lower),
                              EnabledKey(headers, lower), <<>>),
           raised |-> FALSE]

\* a mutation: the guard on rows.length is missing
LoadRowsUnguarded(rows) == LoadBody(rows)

\* if (!rows || rows.length < 2) return []; then the rest of loadNarrationsCSV
LoadRows(rows) ==
  IF Len(rows) < 2 THEN [arr |-> <<>>, out |-> <<>>, raised |-> FALSE]
  ELSE LoadBody(rows)

(* ------------------------- 32-bit arithmetic -------------------------- *)
\* A 32-bit word is <<hi, lo>>, each half in 0..65535. The operators below give the
\* bit patterns of JavaScript's int32 operators; >>> 0 leaves the pattern as it is.
Half == 65536

\* bitwise xor and or of two naturals below 2^16, bit by bit
RECURSIVE Xor16(_, _)
Xor16(a, b) ==
  IF a = 0 THEN b ELSE IF b = 0 THEN a
  ELSE 2 * Xor16(a \div 2, b \div 2) + (IF (a % 2) = (b % 2) THEN 0 ELSE 1)

RECURSIVE Or16(_, _)
Or16(a, b) ==
  IF a = 0 THEN b ELSE IF b = 0 THEN a
  ELSE 2 * Or16(a \div 2, b \div 2) + (IF (a % 2) = 1 \/ (b % 2) = 1 THEN 1 ELSE 0)

RECURSIVE Pow2(_)
Pow2(n) == IF n = 0 THEN 1 ELSE 2 * Pow2(n - 1)

\* x ^ y, x | y
XorW(x, y) == <<Xor16(x[1], y[1]), Xor16(x[2], y[2])>>
OrW(x, y) == <<Or16(x[1], y[1]), Or16(x[2], y[2])>>

\* x >>> n for 0 < n < 32
ShrW(x, n) ==
  IF n >= 16 THEN <<0, x[1] \div Pow2(n - 16)>>
  ELSE <<x[1] \div Pow2(n), (x[2] \div Pow2(n)) + (x[1] % Pow2(n)) * Pow2(16 - n)>>

\* x << n for 0 < n < 16
ShlW(x, n) ==
  <<((x[1] % Pow2(16 - n)) * Pow2(n)) + (x[2] \div Pow2(16 - n)), (x[2] % Pow2(16 - n)) * Pow2(n)>>

\* (x + y) modulo 2^32
AddW(x, y) ==
  LET lo == x[2] + y[2]
  IN <<(x[1] + y[1] + (lo \div Half)) % Half, lo % Half>>

\* the product of two naturals below 2^16 as <<high half, low half>>, by bytes
Mul16(a, b) ==
  LET p0 == (a % 256) * b
      p1 == (a \div 256) * b
      low == p0 + (p1 % 256) * 256
  IN <<((p1 \div 256) + (low \div Half)) % Half, low % Half>>

\* Math.imul(x, y): the low 32 bits of the product
Imul(x, y) ==
  LET ll == Mul16(x[2], y[2])
      hl == Mul16(x[1], y[2])
      lh == Mul16(x[2], y[1])
  IN <<(ll[1] + hl[2] + lh[2]) % Half, ll[2]>>

\* a small natural as a word
Word(n) == <<n \div Half, n % Half>>

(* ----------------------- xmur3 and mulberry32 ------------------------- *)
Digits == <<"0","1","2","3","4","5","6","7","8","9">>

\* String.prototype.charCodeAt for letters and digits
CharCode(c) ==
  IF \E k \in 1..26 : LowerLetters[k] = c THEN 96 + (CHOOSE k \in 1..26 : LowerLetters[k] = c)
  ELSE IF \E k \in 1..26 : UpperLetters[k] = c THEN 64 + (CHOOSE k \in 1..26 : UpperLetters[k] = c)
  ELSE 47 + (CHOOSE k \in 1..10 : Digits[k] = c)

\* 1779033703, 3432918353, 2246822507, 3266489909 and 0x6D2B79F5 as words
XmurInit == <<27145, 58983>>
XmurMul == <<52382, 11601>>
XmurFinal1 == <<34283, 51819>>
XmurFinal2 == <<49842, 44597>>
MulberryStep == <<27947, 31221>>

\* the loop of xmur3 from character k on: h = Math.imul(h ^ code, 3432918353); h = h << 13 | h >>> 19
RECURSIVE XmurLoop(_, _, _)
XmurLoop(str, k, h) ==
  IF k > Len(str) THEN h
  ELSE LET mixed == Imul(XorW(h, Word(CharCode(str[k]))), XmurMul)
       IN XmurLoop(str, k + 1, OrW(ShlW(mixed, 13), ShrW(mixed, 19)))

\* xmur3(str)(): the first value of the hash function, the seed
Xmur3Seed(str) ==
  LET h0 == XmurLoop(str, 1, XorW(XmurInit, Word(Len(str))))
      h1 == Imul(XorW(h0, ShrW(h0, 16)), XmurFinal1)
      h2 == Imul(XorW(h1, ShrW(h1, 13)), XmurFinal2)
  IN XorW(h2, ShrW(h2, 16))

\* one call of the function mulberry32 returns, from its state a: the new a (kept modulo
\* 2^32, which is all the int32 operators read of it) and the 32 bits the result is made of
Mulberry32(a) ==
  LET a1 == AddW(a, MulberryStep)
      t1 == Imul(XorW(a1, ShrW(a1, 15)), OrW(a1, Word(1)))
      t2 == XorW(t1, AddW(t1, Imul(XorW(t1, ShrW(t1, 7)), OrW(t1, Word(61)))))
  IN [a |-> a1, bits |-> XorW(t2, ShrW(t2, 14))]

\* Math.floor(rand() * (i + 1)) for rand() = bits / 4294967296 and a small i
FloorScale(bits, n) == ((bits[1] * n) + ((bits[2] * n) \div Half)) \div Half

(* ------------------ the state before anything has run ---------------- *)
\* parseCSV not entered
NoParse == [s |-> <<>>, i |-> 0, field |-> <<>>, row |-> <<>>, rows |-> <<>>, inQuotes |-> FALSE]

\* a URL without parameters
NoParams == [n |-> Null, seed |-> Null]

\* the locals before main runs: no array, no generator, no items
NoMain ==
  [pc |-> "main", a |-> <<>>, i |-> 0, rand |-> <<0, 0>>, seeded |-> FALSE,
   ordered |-> <<>>, target |-> [finite |-> FALSE, n |-> 0], items |-> <<>>]

\* the page before jsPsych runs: no form, nothing written, nothing sent
NoForm == [chips |-> <<>>, existing |-> {}, new_labels |-> <<>>, mem |-> {}]

NoSession ==
  /\ pid = <<>> /\ at = 0 /\ dom = NoForm /\ labelBank = <<>>
  /\ data = <<>> /\ posts = <<>> /\ fin = "idle" /\ saved = <<>> /\ alerted = "none"

(* ---------------------- parser, one step at a time -------------------- *)
CsvAlphabet == {Quote, Comma, LF, CR, " ", "a"}

\* the quoted field of the decoder's documented example: "a,b\nc""d"
QuotedExample == <<Quote, "a", Comma, "b", LF, "c", Quote, Quote, "d", Quote>>

ParseInputs == SeqsUpTo(CsvAlphabet, MaxTextLen) \cup {QuotedExample}


InitCSV ==
  /\ text \in ParseInputs
  /\ p = NoParse
  /\ ppc = "start"
  /\ arr = <<>>
  /\ narrations = <<>>
  /\ raised = FALSE
  /\ qs = NoParams /\ m = NoMain /\ plans = <<>>
  /\ NoSession

\* parseCSV is entered: the text is normalised and the locals are set
ParseBegin ==
  /\ ppc = "start"
  /\ p' = ParseStart(text)
  /\ ppc' = "scan"
  /\ UNCHANGED <<text, arr, narrations, raised, sequencerVars, sessionVars>>

\* one character (or one doubled quote) is consumed
ParseChar ==
  /\ ppc = "scan"
  /\ p.i < Len(p.s)
  /\ p' = ParseStep(p)
  /\ UNCHANGED <<text, ppc, arr, narrations, raised, sequencerVars, sessionVars>>

\* end of input: the last field and row are flushed and rows is returned
ParseFinish ==
  /\ ppc = "scan"
  /\ ~(p.i < Len(p.s))
  /\ p' = ParseEnd(p)
  /\ ppc' = "parsed"
  /\ UNCHANGED <<text, arr, narrations, raised, sequencerVars, sessionVars>>

NextCSV == ParseBegin \/ ParseChar \/ ParseFinish

SpecCSV == InitCSV /\ [][NextCSV]_vars /\ WF_vars(NextCSV)

(* ------------------- decoder, one call of the loader ------------------ *)
\* cells joined by commas, rows joined by newlines: the text of a table as typed
RECURSIVE JoinWith(_, _)
JoinWith(parts, sep) ==
  IF parts = <<>> THEN <<>>
  ELSE IF Len(parts) = 1 THEN parts[1]
  ELSE parts[1] \o <<sep>> \o JoinWith(Tail(parts), sep)

TableText(header, dataRows) ==
  JoinWith([k \in 1..(1 + Len(dataRows)) |->
              JoinWith(IF k = 1 THEN header ELSE dataRows[k - 1], Comma)], LF)

\* header names that decide the id and text roles, one in another letter case, one other
RoleNames == {S_narration_id, S_id, <<"I","d">>, S_narration_text, S_text, S_narration, <<"x">>}

\* data rows told apart by their cells: padded cells, a missing cell, an empty cell
RoleRows == { << <<"a">>, <<"b">>, <<"c">> >>,
              << <<" ","d"," ">>, <<"e","\t">> >>,
              << <<"f">>, <<>>, <<"g">> >> }

\* every header row of up to MaxCols role names, alone or over one data row
RoleTables ==
  {TableText(h, d) : h \in SeqsUpTo(RoleNames, MaxCols) \ {<<>>},
                     d \in {<<>>} \cup {<<r>> : r \in RoleRows}}

\* header names that decide the enabled role, one in another letter case, one other
EnabledNames == {S_enabled, S_include, S_use, S_active, <<"E","n","a","b","l","e","d">>, <<"x">>}

EnabledValues == { <<"y","e","s">>, <<"Y">>, <<"1">>, <<" ","T","R","U","E"," ">>,
                   <<"n","o">>, <<"0">>, <<"f","a","l","s","e">>, <<>> }

EnabledTables ==
  {TableText(<<S_id, S_text>> \o e, << (<< <<"a">>, <<"b">> >> \o v) >>) :
     e \in SeqsUpTo(EnabledNames, 2) \ {<<>>}, v \in SeqsUpTo(EnabledValues, 2)}

IdCells == { <<"a">>, <<"b">>, <<>>, <<" ">> }
TextCells == { <<"t">>, <<" ","u"," ">>, <<>> }

\* rows with an empty or blank id or text, beside a third column that is never empty
FilterTables ==
  {TableText(<<S_id, S_text, <<"x">> >>, d) :
     d \in SeqsUpTo({<<i, x, <<"z">> >> : i \in IdCells, x \in TextCells}, MaxRows)}

FinalNewlines == {<<>>, <<LF>>, <<CR, LF>>}

LoadInputs ==
  {body \o nl : body \in RoleTables \cup EnabledTables \cup FilterTables, nl \in FinalNewlines}
    \cup ParseInputs

InitLoad ==
  /\ text \in LoadInputs
  /\ p = NoParse
  /\ ppc = "start"
  /\ arr = <<>>
  /\ narrations = <<>>
  /\ raised = FALSE
  /\ qs = NoParams /\ m = NoMain /\ plans = <<>>
  /\ NoSession

\* loadNarrationsCSV on the fetched text: parseCSV, the header roles, the filter loop
LoadNarrationsCSV ==
  /\ ppc = "start"
  /\ LET st == ParseLoop(ParseStart(text))
         r == LoadRows(st.rows)
     IN /\ p' = st
        /\ arr' = r.arr
        /\ narrations' = r.out
        /\ raised' = r.raised
  /\ ppc' = "loaded"
  /\ UNCHANGED <<text, sequencerVars, sessionVars>>

NextLoad == LoadNarrationsCSV

SpecLoad == InitLoad /\ [][NextLoad]_vars


(* ------------------- main: order and count, shuffle ------------------- *)
\* An array of Records is the array of their positions in narrations: slice() copies
\* references, and two rows with the same id and text are still two objects.

\* const nParam = (qs.get("n") || "").toLowerCase()
nParam == ToLowerCase(IF qs.n = Null THEN <<>> ELSE qs.n)

\* const seedParam = qs.get("seed") || ""
seedParam == IF qs.seed = Null THEN <<>> ELSE qs.seed


DigitValue(c) == (CHOOSE k \in 1..10 : Digits[k] = c) - 1
IsDigit(c) == \E k \in 1..10 : Digits[k] = c

\* the value of the longest run of digits at the front of str, after acc
RECURSIVE DigitsValue(_, _)
DigitsValue(str, acc) ==
  IF str # <<>> /\ IsDigit(Head(str)) THEN DigitsValue(Tail(str), 10 * acc + DigitValue(Head(str)))
  ELSE acc

\* parseInt(str, 10): leading white space is skipped, a sign is read, then the longest run
\* of digits; NaN when no digit is there
ParseInt(str) ==
  LET t0 == TrimStart(str)
      neg == t0 # <<>> /\ Head(t0) = "-"
      t1 == IF t0 # <<>> /\ Head(t0) \in {"-", "+"} THEN Tail(t0) ELSE t0
  IN IF t1 = <<>> \/ ~IsDigit(Head(t1)) THEN [nan |-> TRUE, n |-> 0]
     ELSE [nan |-> FALSE, n |-> IF neg THEN 0 - DigitsValue(t1, 0) ELSE DigitsValue(t1, 0)]

Infinity == [finite |-> FALSE, n |-> 0]

\* a mutation of Target: zero is taken as a bound
TargetNonNegative(np) ==
  IF np # <<>> /\ np # <<"a","l","l">>
    THEN IF ~ParseInt(np).nan /\ ParseInt(np).n >= 0
           THEN [finite |-> TRUE, n |-> ParseInt(np).n]
           ELSE Infinity
    ELSE Infinity

\* let target = Infinity; if (nParam && nParam !== "all") { const n = parseInt(nParam, 10);
\* if (!isNaN(n) && n > 0) target = n; }
Target(np) ==
  IF np # <<>> /\ np # <<"a","l","l">>
    THEN IF ~ParseInt(np).nan /\ ParseInt(np).n > 0
           THEN [finite |-> TRUE, n |-> ParseInt(np).n]
           ELSE Infinity
    ELSE Infinity

\* a mutation of MathMin: the larger of the two
MathMax(target, total) == IF target.finite /\ target.n < total THEN total ELSE target.n

\* Math.min(target, totalAvailable)
MathMin(target, total) == IF target.finite /\ target.n < total THEN target.n ELSE total

\* array.slice(0, end) for end >= 0: the end is clamped to the length
Slice0(array, end) == SubSeq(array, 1, IF end < Len(array) THEN end ELSE Len(array))

\* a mutation of Swap: a[i] = a[j] alone, the old a[i] is lost
SwapOverwrite(a, i, j) ==
  [k \in 1..Len(a) |-> IF k = i + 1 THEN a[j + 1] ELSE a[k]]

\* [a[i], a[j]] = [a[j], a[i]] for 0-based i and j
Swap(a, i, j) ==
  [k \in 1..Len(a) |-> IF k = i + 1 THEN a[j + 1] ELSE IF k = j + 1 THEN a[i + 1] ELSE a[k]]

\* the Decoded Tables handed to the sequencer: Records N1, N2, ... of one text
TableOf(len) == [k \in 1..len |-> Record(<<"N", Digits[k + 1]>>, <<"t">>)]

SeedAlphabet == {"a", "b"}

\* values of the URL parameter n: absent, empty, all, integers, and strings that
\* start or do not start with an integer
NValues ==
  { Null, <<>>, <<"a","l","l">>, <<"A","L","L">>, <<"0">>, <<"-","1">>, <<"1">>, <<"2">>, <<"3">>,
    <<"0","2">>, <<"+","3">>, <<" ","2">>, <<"9">>, <<"1","0">>, <<"2",".","5">>, <<"3","x">>,
    <<"x">>, <<"x","2">>, <<"-">> }

InitSeq ==
  /\ text = <<>> /\ p = NoParse /\ ppc = "start" /\ arr = <<>> /\ raised = FALSE
  /\ narrations \in {TableOf(len) : len \in 0..MaxTable}
  /\ qs \in [n : NValues, seed : {Null} \cup SeqsUpTo(SeedAlphabet, MaxKeyLen)]
  /\ m = NoMain
  /\ plans = <<>>
  /\ NoSession

\* if (totalAvailable === 0) { alert(...); return; }
NoNarrations ==
  /\ m.pc = "main"
  /\ Len(narrations) = 0
  /\ m' = [m EXCEPT !.pc = "alerted"]
  /\ UNCHANGED <<decoderVars, narrations, qs, plans, sessionVars>>

\* seededShuffle(narrations, seedParam) is entered: without a seed shuffle(array) is,
\* with one the generator is seeded from xmur3; a = array.slice(), i = a.length - 1
ShuffleBegin ==
  /\ m.pc = "main"
  /\ Len(narrations) # 0
  /\ m' = [m EXCEPT !.pc = "loop",
                    !.a = [k \in 1..Len(narrations) |-> k],
                    !.i = Len(narrations) - 1,
                    !.seeded = (seedParam # <<>>),
                    !.rand = IF seedParam # <<>> THEN Xmur3Seed(seedParam) ELSE <<0, 0>>]
  /\ UNCHANGED <<decoderVars, narrations, qs, plans, sessionVars>>

\* one iteration of the loop of shuffle: j = Math.floor(Math.random() * (i + 1)), any of 0..i
ShuffleStep ==
  /\ m.pc = "loop" /\ ~m.seeded /\ m.i > 0
  /\ \E j \in 0..m.i : m' = [m EXCEPT !.a = Swap(m.a, m.i, j), !.i = m.i - 1]
  /\ UNCHANGED <<decoderVars, narrations, qs, plans, sessionVars>>

\* a mutation of SeededStep: the index is drawn from Math.random, not from the seeded stream
SeededStepRandom ==
  /\ m.pc = "loop" /\ m.seeded /\ m.i > 0
  /\ \E j \in 0..m.i : m' = [m EXCEPT !.a = Swap(m.a, m.i, j), !.i = m.i - 1]
  /\ UNCHANGED <<decoderVars, narrations, qs, plans, sessionVars>>

\* one iteration of the loop of seededShuffle: j = Math.floor(rand() * (i + 1))
SeededStep ==
  /\ m.pc = "loop" /\ m.seeded /\ m.i > 0
  /\ LET r == Mulberry32(m.rand)
         j == FloorScale(r.bits, m.i + 1)
     IN m' = [m EXCEPT !.a = Swap(m.a, m.i, j), !.i = m.i - 1, !.rand = r.a]
  /\ UNCHANGED <<decoderVars, narrations, qs, plans, sessionVars>>

\* the shuffle returns a; target is computed and items = ordered.slice(0, Math.min(target, totalAvailable))
OrderAndCount ==
  /\ m.pc = "loop" /\ ~(m.i > 0)
  /\ LET target == Target(nParam)
         items == Slice0(m.a, MathMin(target, Len(narrations)))
     IN /\ m' = [m EXCEPT !.pc = "run", !.ordered = m.a, !.target = target, !.items = items]
        /\ plans' = Append(plans, items)
  /\ UNCHANGED <<decoderVars, narrations, qs, sessionVars>>

\* the page is loaded once more with the same URL and the same table: main runs again
SecondInvocation ==
  /\ m.pc = "run"
  /\ Len(plans) = 1
  /\ m' = NoMain
  /\ UNCHANGED <<decoderVars, narrations, qs, plans, sessionVars>>

NextSeq ==
  NoNarrations \/ ShuffleBegin \/ ShuffleStep \/ SeededStep \/ OrderAndCount \/ SecondInvocation

SpecSeq == InitSeq /\ [][NextSeq]_vars

(* ------------------ main: the session run by jsPsych ------------------ *)
\* most narrations of the table of a modelled session
MaxTrials == 2

\* const REQUIRE_AT_LEAST_ONE_LABEL = true
REQUIRE_AT_LEAST_ONE_LABEL == TRUE

\* APPS_SCRIPT_ENDPOINT && APPS_SCRIPT_ENDPOINT.startsWith("https"): the endpoint is
\* the https URL of the script
EndpointIsHttps == TRUE

\* const csvParam = qs.get("csv") || "data/narrations_v1.csv", for a URL without csv
csvParam ==
  <<"d","a","t","a","/","n","a","r","r","a","t","i","o","n","s","_","v","1",".","c","s","v">>

\* const session = "001"
session == <<"0","0","1">>

\* the values of the seven memory check boxes, in document order
MemValues == 1..7

\* the memory boxes a participant of a modelled session touches: the first and the last
MemTouched == {1, 7}

\* s.split(sep), the part of s not yet split being rest and the piece being read cur
RECURSIVE SplitFrom(_, _, _)
SplitFrom(rest, cur, sep) ==
  IF rest = <<>> THEN <<cur>>
  ELSE IF Head(rest) = sep THEN <<cur>> \o SplitFrom(Tail(rest), <<>>, sep)
  ELSE SplitFrom(Tail(rest), Append(cur, Head(rest)), sep)

Split(s, sep) == SplitFrom(s, <<>>, sep)

\* array.filter(Boolean) on an array of strings: the empty strings are dropped
RECURSIVE FilterNonEmpty(_)
FilterNonEmpty(a) ==
  IF a = <<>> THEN <<>>
  ELSE IF Head(a) = <<>> THEN FilterNonEmpty(Tail(a))
  ELSE <<Head(a)>> \o FilterNonEmpty(Tail(a))

\* function splitClean(s)
splitClean(s) ==
  IF s = <<>> THEN <<>>
  ELSE LET parts == Split(s, Comma)
       IN FilterNonEmpty([k \in 1..Len(parts) |-> ToLowerCase(Trim(parts[k]))])

\* array.includes(v)
Includes(a, v) == \E k \in 1..Len(a) : a[k] = v

\* array.filter((v,i,a) => a.indexOf(v) === i): the first occurrence of each value
RECURSIVE FirstOccurrences(_, _)
FirstOccurrences(a, seen) ==
  IF a = <<>> THEN seen
  ELSE FirstOccurrences(Tail(a), IF Includes(seen, Head(a)) THEN seen ELSE Append(seen, Head(a)))

\* combined.forEach(lbl => { if (!labelBank.includes(lbl)) labelBank.push(lbl); })
RECURSIVE PushNew(_, _)
PushNew(bank, labels) ==
  IF labels = <<>> THEN bank
  ELSE PushNew(IF Includes(bank, Head(labels)) THEN bank ELSE Append(bank, Head(labels)),
               Tail(labels))

\* array.join(",")
Join(a) == JoinWith(a, Comma)

\* the values of the checked inputs named existing, in document order
RECURSIVE CheckedOf(_, _, _)
CheckedOf(chips, existing, k) ==
  IF k > Len(chips) THEN <<>>
  ELSE (IF k \in existing THEN <<chips[k]>> ELSE <<>>) \o CheckedOf(chips, existing, k + 1)

\* the smallest member of a non-empty set of numbers
Lowest(S) == CHOOSE v \in S : \A w \in S : v <= w

\* items and N_TRIALS of main
items == m.items
N_TRIALS == Len(items)

\* the timeline: Welcome, Instructions, one trial per item, End
InstructionsAt == 1
FirstTrialAt == 2
EndAt == FirstTrialAt + N_TRIALS
TimelineLength == EndAt + 1

\* idx of the narration trial on the page (items.forEach((item, idx) => ...))
idx == at - FirstTrialAt

\* a narration trial is on the page and no alert is open: alert() is modal, and nothing
\* else runs until it is dismissed
OnNarrationTrial == at >= FirstTrialAt /\ at < EndAt /\ alerted = "none"

\* the page jsPsych shows at position k: the stimulus function of a narration trial is
\* called with the bank as it is then, every box unchecked and the text field empty
Page(k, bank) ==
  IF k >= FirstTrialAt /\ k < EndAt
    THEN [chips |-> bank, existing |-> {}, new_labels |-> <<>>, mem |-> {}]
    ELSE NoForm

\* what the participant may type into the field new_labels
NewLabelTexts == { <<>>, <<"a">>, <<" ","B",",",",","a">> }

\* the participant id of a modelled session (?pid=p1)
Pids == { <<"p","1">> }

\* the orders seededShuffle can return without a seed that a session is run on
Orders(len) == { [k \in 1..len |-> k], [k \in 1..len |-> len + 1 - k] }

\* main has loaded a table, ordered it and cut it to ?n= items; jsPsych.run starts
InitSession ==
  /\ text = <<>> /\ p = NoParse /\ ppc = "start" /\ arr = <<>> /\ raised = FALSE
  /\ \E len \in 1..MaxTrials : \E n \in 1..len : \E order \in Orders(len) :
       /\ narrations = TableOf(len)
       /\ qs = [n |-> <<Digits[n + 1]>>, seed |-> Null]
       /\ m = [NoMain EXCEPT !.pc = "run", !.a = order, !.ordered = order,
                             !.target = [finite |-> TRUE, n |-> n],
                             !.items = Slice0(order, n)]
       /\ plans = <<Slice0(order, n)>>
  /\ pid \in Pids
  /\ at = 0 /\ dom = NoForm /\ labelBank = <<>>
  /\ data = <<>> /\ posts = <<>> /\ fin = "idle" /\ saved = <<>> /\ alerted = "none"

\* the button of the Welcome page
ShowInstructions ==
  /\ at = 0
  /\ at' = InstructionsAt
  /\ dom' = Page(InstructionsAt, labelBank)
  /\ UNCHANGED <<decoderVars, narrations, sequencerVars, pid, labelBank, data, posts, fin, saved, alerted>>

\* the button of the Instructions page: the first narration trial is shown
StartTrials ==
  /\ at = InstructionsAt
  /\ at' = FirstTrialAt
  /\ dom' = Page(FirstTrialAt, labelBank)
  /\ UNCHANGED <<decoderVars, narrations, sequencerVars, pid, labelBank, data, posts, fin, saved, alerted>>

\* a suggestion chip is checked or unchecked
ToggleExisting ==
  /\ OnNarrationTrial
  /\ \E k \in 1..Len(dom.chips) :
       dom' = [dom EXCEPT !.existing = IF k \in @ THEN @ \ {k} ELSE @ \cup {k}]
  /\ UNCHANGED <<decoderVars, narrations, sequencerVars, pid, at, labelBank, data, posts, fin, saved, alerted>>

\* the text field new_labels is edited
TypeNewLabels ==
  /\ OnNarrationTrial
  /\ \E t \in NewLabelTexts : dom' = [dom EXCEPT !.new_labels = t]
  /\ UNCHANGED <<decoderVars, narrations, sequencerVars, pid, at, labelBank, data, posts, fin, saved, alerted>>

\* a mutation of MemChange: the other boxes stay as they are
MemChangeKeep(mem, v) == IF v \in mem THEN mem \ {v} ELSE mem \cup {v}

\* the participant toggles memory box v and its change listener runs:
\* if (box.checked) memBoxes.forEach(b => { if (b !== box) b.checked = false; })
MemChange(mem, v) == IF v \in mem THEN mem \ {v} ELSE {v}

ToggleMem ==
  /\ OnNarrationTrial
  /\ \E v \in MemTouched : dom' = [dom EXCEPT !.mem = MemChange(@, v)]
  /\ UNCHANGED <<decoderVars, narrations, sequencerVars, pid, at, labelBank, data, posts, fin, saved, alerted>>

\* the locals of the click handler of next_btn
checked == CheckedOf(dom.chips, dom.existing, 1)
newLabels == splitClean(dom.new_labels)
combined == FirstOccurrences(checked \o newLabels, <<>>)

\* const memory_rating = memChecked ? parseInt(memChecked.value, 10) : null, memChecked
\* being the first checked box in document order
memory_rating ==
  IF dom.mem = {} THEN Null ELSE ParseInt(<<Digits[Lowest(dom.mem) + 1]>>).n

\* a mutation of TrialRecord: trial_index is idx
TrialRecordFromZero(item, bank) ==
  [trial_index |-> idx,
   n_trials_total |-> N_TRIALS,
   narration_id |-> item[S_narration_id],
   narration_text |-> item[S_narration_text],
   selected_labels |-> Join(checked),
   new_labels |-> Join(newLabels),
   all_labels |-> Join(combined),
   memory_rating |-> memory_rating,
   label_bank_snapshot |-> Join(bank),
   participant |-> pid,
   session |-> session,
   seed |-> seedParam,
   csv |-> csvParam]

\* the object passed to jsPsych.data.write for item, the bank being bank
TrialRecord(item, bank) ==
  [trial_index |-> idx + 1,
   n_trials_total |-> N_TRIALS,
   narration_id |-> item[S_narration_id],
   narration_text |-> item[S_narration_text],
   selected_labels |-> Join(checked),
   new_labels |-> Join(newLabels),
   all_labels |-> Join(combined),
   memory_rating |-> memory_rating,
   label_bank_snapshot |-> Join(bank),
   participant |-> pid,
   session |-> session,
   seed |-> seedParam,
   csv |-> csvParam]

\* a mutation of TrialPayload: the record sent is the first one written
TrialPayloadFirst(records) ==
  [participant |-> pid, session |-> session, record |-> records[1]]

\* trialPayload, without its timestamp (the wall clock's): record is
\* jsPsych.data.get().last(1).values()[0]
TrialPayload(records) ==
  [participant |-> pid, session |-> session, record |-> records[Len(records)]]

\* fetch(APPS_SCRIPT_ENDPOINT, { method: "POST", ..., body }) has been called
Post(kind, body) == [kind |-> kind, body |-> body, state |-> "pending"]

\* Next is clicked with no category checked and none typed
NextNoLabel ==
  /\ OnNarrationTrial
  /\ REQUIRE_AT_LEAST_ONE_LABEL /\ Len(combined) = 0
  /\ alerted' = "label"
  /\ UNCHANGED <<decoderVars, narrations, sequencerVars, pid, at, dom, labelBank, data, posts, fin, saved>>

\* Next is clicked with a category and no memory box checked: the categories have been
\* pushed to the bank when the rating is looked at
NextNoRating ==
  /\ OnNarrationTrial
  /\ ~(REQUIRE_AT_LEAST_ONE_LABEL /\ Len(combined) = 0)
  /\ dom.mem = {}
  /\ labelBank' = PushNew(labelBank, combined)
  /\ alerted' = "rating"
  /\ UNCHANGED <<decoderVars, narrations, sequencerVars, pid, at, dom, data, posts, fin, saved>>

\* Next is clicked with a category and a rating: the bank grows, the record is written,
\* the autosave is posted and not awaited, finishTrial moves jsPsych to the next page
NextAccepted ==
  /\ OnNarrationTrial
  /\ ~(REQUIRE_AT_LEAST_ONE_LABEL /\ Len(combined) = 0)
  /\ dom.mem # {}
  /\ LET bank == PushNew(labelBank, combined)
         records == Append(data, TrialRecord(narrations[items[idx + 1]], bank))
     IN /\ labelBank' = bank
        /\ data' = records
        /\ posts' = IF EndpointIsHttps
                      THEN Append(posts, Post("autosave", TrialPayload(records)))
                      ELSE posts
        /\ at' = at + 1
        /\ dom' = Page(at + 1, bank)
  /\ UNCHANGED <<decoderVars, narrations, sequencerVars, pid, fin, saved, alerted>>

\* payload of on_finish, without its timestamp (the wall clock's)
FinalPayload ==
  [participant |-> pid, session |-> session, records |-> data, final_label_bank |-> labelBank]

\* (pid || "participant") + "_labeling.csv"
FileName ==
  (IF pid = <<>> THEN <<"p","a","r","t","i","c","i","p","a","n","t">> ELSE pid)
    \o <<"_","l","a","b","e","l","i","n","g",".","c","s","v">>

\* jsPsych.data.get().localSave("csv", name): a file of the records written
LocalSave(files) == Append(files, [name |-> FileName, format |-> "csv", records |-> data])

\* the button of the End page ends the timeline and on_finish runs up to its await
\* (without an https endpoint, to its end)
EndSubmit ==
  /\ at = EndAt
  /\ fin = "idle"
  /\ at' = TimelineLength
  /\ dom' = NoForm
  /\ IF EndpointIsHttps
       THEN /\ posts' = Append(posts, Post("final", FinalPayload))
            /\ fin' = "awaiting"
            /\ saved' = saved
       ELSE /\ posts' = posts
            /\ fin' = "saved"
            /\ saved' = LocalSave(saved)
  /\ UNCHANGED <<decoderVars, narrations, sequencerVars, pid, labelBank, data, alerted>>

\* posts with the k-th POST settled as outcome
Settle(k, outcome) == [posts EXCEPT ![k].state = outcome]

\* the awaited fetch of on_finish is fulfilled: alert("Thanks! ...")
FinalFulfilled ==
  /\ fin = "awaiting"
  /\ \E k \in 1..Len(posts) :
       /\ posts[k].kind = "final" /\ posts[k].state = "pending"
       /\ posts' = Settle(k, "fulfilled")
  /\ fin' = "submitted"
  /\ UNCHANGED <<decoderVars, narrations, sequencerVars, pid, at, dom, labelBank, data, saved, alerted>>

\* a mutation of FinalRejected: the catch block alerts and saves nothing
FinalRejectedNoSave ==
  /\ fin = "awaiting"
  /\ \E k \in 1..Len(posts) :
       /\ posts[k].kind = "final" /\ posts[k].state = "pending"
       /\ posts' = Settle(k, "rejected")
  /\ fin' = "saved"
  /\ UNCHANGED <<decoderVars, narrations, sequencerVars, pid, at, dom, labelBank, data, saved, alerted>>

\* the awaited fetch of on_finish is rejected: the catch block alerts and saves the CSV
FinalRejected ==
  /\ fin = "awaiting"
  /\ \E k \in 1..Len(posts) :
       /\ posts[k].kind = "final" /\ posts[k].state = "pending"
       /\ posts' = Settle(k, "rejected")
  /\ fin' = "saved"
  /\ saved' = LocalSave(saved)
  /\ UNCHANGED <<decoderVars, narrations, sequencerVars, pid, at, dom, labelBank, data, alerted>>

\* the fetch of an autosave is fulfilled: nothing was chained to it (a promise reaction
\* runs only when no handler is running, so not under an open alert)
AutosaveFulfilled ==
  /\ alerted = "none"
  /\ \E k \in 1..Len(posts) :
       /\ posts[k].kind = "autosave" /\ posts[k].state = "pending"
       /\ posts' = Settle(k, "fulfilled")
  /\ UNCHANGED <<decoderVars, narrations, sequencerVars, pid, at, dom, labelBank, data, fin, saved, alerted>>

\* a mutation of AutosaveRejected: the rejection saves the local file as on_finish does
AutosaveRejectedSaves ==
  /\ alerted = "none"
  /\ \E k \in 1..Len(posts) :
       /\ posts[k].kind = "autosave" /\ posts[k].state = "pending"
       /\ posts' = Settle(k, "rejected")
  /\ saved' = LocalSave(saved)
  /\ UNCHANGED <<decoderVars, narrations, sequencerVars, pid, at, dom, labelBank, data, fin, alerted>>

\* the fetch of an autosave is rejected: .catch(e => console.error("Autosave failed", e))
AutosaveRejected ==
  /\ alerted = "none"
  /\ \E k \in 1..Len(posts) :
       /\ posts[k].kind = "autosave" /\ posts[k].state = "pending"
       /\ posts' = Settle(k, "rejected")
  /\ UNCHANGED <<decoderVars, narrations, sequencerVars, pid, at, dom, labelBank, data, fin, saved, alerted>>

\* the alert of the Next handler is dismissed and the handler returns
DismissAlert ==
  /\ alerted # "none"
  /\ alerted' = "none"
  /\ UNCHANGED <<decoderVars, narrations, sequencerVars, pid, at, dom, labelBank, data, posts, fin, saved>>

NextSession ==
  \/ ShowInstructions \/ StartTrials
  \/ ToggleExisting \/ TypeNewLabels \/ ToggleMem
  \/ NextNoLabel \/ NextNoRating \/ DismissAlert \/ NextAccepted
  \/ EndSubmit \/ FinalFulfilled \/ FinalRejected
  \/ AutosaveFulfilled \/ AutosaveRejected

\* a pending fetch settles
SpecSession ==
  InitSession /\ [][NextSession]_vars
    /\ WF_vars(FinalFulfilled \/ FinalRejected)
    /\ WF_vars(AutosaveFulfilled \/ AutosaveRejected)

(* ==================== properties of the sequencer ==================== *)
\* C1: for a fixed non-empty Sequencing Key and a fixed Decoded Table, two independent
\* runs of the seeded path (seed from xmur3, stream from mulberry32, Fisher-Yates, then
\* truncation) produce the same Session Plan, element for element in the same order.
C1_SameKeySamePlan ==
  (Len(plans) = 2 /\ seedParam # <<>>) => plans[1] = plans[2]

\* two seeded runs over a table of four ended with the same plan, which is not the table's order
C1_Witness ==
  /\ Len(plans) = 2 /\ seedParam # <<>> /\ Len(narrations) = 4
  /\ Len(plans[1]) = 4 /\ plans[1] # <<1, 2, 3, 4>> /\ plans[1] = plans[2]

\* the smaller of the target and the table length
PlanLength == IF m.target.finite /\ m.target.n < Len(narrations) THEN m.target.n ELSE Len(narrations)

\* C2: for every table length L and target length T, the Session Plan is the first
\* min(T, L) elements of the shuffled table in shuffle order: its length is min(T, L), it
\* holds each table record at most once and nothing that is not in the table, and when
\* T > L it is the whole shuffled table.
C2_FirstMinElements ==
  m.pc = "run" =>
    /\ Len(m.ordered) = Len(narrations)
    /\ {m.ordered[k] : k \in 1..Len(m.ordered)} = 1..Len(narrations)
    /\ Len(m.items) = PlanLength
    /\ \A k \in 1..Len(m.items) : m.items[k] = m.ordered[k]
    /\ \A j, k \in 1..Len(m.items) : j # k => m.items[j] # m.items[k]
    /\ (m.target.finite /\ m.target.n > Len(narrations)) => m.items = m.ordered

\* a target below the table length cut a shuffled table of four to its first two elements
C2_Witness ==
  /\ m.pc = "run" /\ Len(narrations) = 4 /\ m.target.finite /\ m.target.n = 2
  /\ Len(m.items) = 2 /\ m.ordered # <<1, 2, 3, 4>>

\* a target above the table length left the whole shuffled table
C2_WitnessOver ==
  /\ m.pc = "run" /\ Len(narrations) = 3 /\ m.target.finite /\ m.target.n = 9
  /\ Len(m.items) = 3

\* str without its leading white space and without one leading sign
Unsigned(str) ==
  LET t0 == TrimStart(str)
  IN IF t0 # <<>> /\ Head(t0) \in {"-", "+"} THEN Tail(t0) ELSE t0

Negative(str) == TrimStart(str) # <<>> /\ Head(TrimStart(str)) = "-"

\* the number of digits str starts with
LeadingDigits(str) ==
  CHOOSE d \in 0..Len(str) :
    /\ \A k \in 1..d : IsDigit(str[k])
    /\ d < Len(str) => ~IsDigit(str[d + 1])

\* the number that a sequence of digits writes
RECURSIVE Decimal(_)
Decimal(ds) ==
  IF ds = <<>> THEN 0
  ELSE 10 * Decimal(SubSeq(ds, 1, Len(ds) - 1)) + DigitValue(ds[Len(ds)])

\* whether str is an integer and nothing else, and the integer it starts with
IsInteger(str) == Unsigned(str) # <<>> /\ LeadingDigits(Unsigned(str)) = Len(Unsigned(str))
LeadingInteger(str) ==
  LET n == Decimal(SubSeq(Unsigned(str), 1, LeadingDigits(Unsigned(str))))
  IN IF Negative(str) THEN 0 - n ELSE n

Smaller(a, b) == IF a < b THEN a ELSE b

CurChar == CharAt(p.s, p.i)
NextChar == CharAt(p.s, p.i + 1)

\* a step of the loop taken in the quoted state
QuotedStep == ppc = "scan" /\ ppc' = "scan" /\ p.inQuotes /\ p' # p

\* what the quoted state does with the character under the cursor
QuotedStepEffect ==
  /\ p'.row = p.row /\ p'.rows = p.rows /\ p'.s = p.s
  /\ (CurChar = Quote /\ NextChar = Quote) =>
       (p'.field = Append(p.field, Quote) /\ p'.i = p.i + 2 /\ p'.inQuotes)
  /\ (CurChar = Quote /\ NextChar # Quote) =>
       (p'.field = p.field /\ p'.i = p.i + 1 /\ ~p'.inQuotes)
  /\ (CurChar # Quote) =>
       (p'.field = Append(p.field, CurChar) /\ p'.i = p.i + 1 /\ p'.inQuotes)

\* a,b\nc"d
QuotedExampleValue == <<"a", Comma, "b", LF, "c", Quote, "d">>

\* C4: in the quoted state a doubled double-quote appends one literal double-quote and
\* consumes both characters, a single double-quote returns to the unquoted state, and
\* every other character, comma and newline included, is appended to the field without
\* ending the field or the row; the quoted field "a,b\nc""d" decodes to the one value
\* a,b\nc"d.
C4_QuotedState ==
  /\ [][QuotedStep => QuotedStepEffect]_vars
  /\ []((ppc = "parsed" /\ text = QuotedExample) => p.rows = << <<QuotedExampleValue>> >>)

\* the example has been parsed to its single value
C4_Witness ==
  ppc = "parsed" /\ text = QuotedExample /\ p.rows = << <<QuotedExampleValue>> >> /\ ~p.inQuotes

\* the number of characters held by the fields of a row, and by the rows of a table
RECURSIVE RowChars(_)
RowChars(r) == IF r = <<>> THEN 0 ELSE Len(Head(r)) + RowChars(Tail(r))

RECURSIVE TableChars(_)
TableChars(rs) == IF rs = <<>> THEN 0 ELSE RowChars(Head(rs)) + TableChars(Tail(rs))

\* the row as it stands once the last field is flushed into it
LastRow == Append(p.row, p.field)

\* the step that leaves the loop at end of input
EndOfInput == ppc = "scan" /\ ppc' = "parsed"

EndOfInputEffect ==
  /\ p.i >= Len(p.s)
  /\ p'.field = <<>>
  /\ IF Len(LastRow) > 1 \/ LastRow[1] # <<>>
       THEN p'.rows = Append(p.rows, LastRow) /\ p'.row = <<>>
       ELSE p'.rows = p.rows
  /\ TableChars(p'.rows) = TableChars(p.rows) + RowChars(p.row) + Len(p.field)

\* C10: for every input parseCSV terminates: each step of the loop moves the cursor
\* forward and never past the end; at end of input, in the unquoted state or inside an
\* unterminated quoted field, the accumulated field is flushed and the current row is
\* flushed exactly when it has more than one field or its single field is non-empty, so
\* the empty row left by a final newline is discarded and no accumulated character is lost.
C10_EndOfInput ==
  /\ <>(ppc = "parsed")
  /\ [][(ppc = "scan" /\ ppc' = "scan" /\ p' # p) => (p'.i > p.i /\ p'.i <= Len(p.s))]_vars
  /\ [][EndOfInput => EndOfInputEffect]_vars
  /\ []((ppc = "parsed" /\ p.s # <<>> /\ p.s[Len(p.s)] = LF /\ ~p.inQuotes)
          => p.row = << <<>> >>)

\* an unterminated quoted field reached end of input and its characters were flushed
C10_Witness ==
  ppc = "parsed" /\ p.inQuotes /\ p.rows # <<>> /\ TableChars(p.rows) >= 2

(* ===================== properties of the loader ====================== *)
\* the header row and the data rows as parseCSV returned them
HeaderRow == p.rows[1]
DataRows == Tail(p.rows)
Decoded == ppc = "loaded" /\ Len(p.rows) >= 2

\* the header names, trimmed, and in lower case
TrimmedHeader == [k \in 1..Len(HeaderRow) |-> Trim(HeaderRow[k])]
LowerHeader == [k \in 1..Len(HeaderRow) |-> ToLowerCase(Trim(HeaderRow[k]))]

\* the first column (1-based) whose header is the name, 0 when there is none
ColumnNamed(name) ==
  IF \E k \in 1..Len(LowerHeader) : LowerHeader[k] = name
    THEN CHOOSE k \in 1..Len(LowerHeader) :
           LowerHeader[k] = name /\ \A j \in 1..(k - 1) : LowerHeader[j] # name
    ELSE 0

\* the column of the first candidate name, in priority order, that some header carries
RoleColumn(candidates, fallback) ==
  LET present == {c \in 1..Len(candidates) : ColumnNamed(candidates[c]) # 0}
  IN IF present = {} THEN fallback
     ELSE ColumnNamed(candidates[CHOOSE c \in present : \A d \in present : c <= d])

IdColumn == RoleColumn(<<S_narration_id, S_id>>, 1)
TextColumn == RoleColumn(<<S_narration_text, S_text, S_narration>>, 2)
EnabledColumn == RoleColumn(<<S_enabled, S_include, S_use, S_active>>, 0)

\* the trimmed cell of a row in a column, empty when the row has no such cell
CellOf(r, k) == IF k \in 1..Len(r) THEN Trim(r[k]) ELSE <<>>

\* C5: role resolution is case-insensitive and first match wins: the id role is the
\* header named narration_id, else id, else the first column; the text role is the header
\* named narration_text, else text, else narration, else the second column; each Record's
\* id and text are the trimmed cells of the columns so resolved, also when several header
\* columns carry the same name.
C5_RoleColumns ==
  Decoded =>
    \A k \in 1..Len(narrations) : \E r \in 1..Len(DataRows) :
      /\ narrations[k][S_narration_id] = CellOf(DataRows[r], IdColumn)
      /\ narrations[k][S_narration_text] = CellOf(DataRows[r], TextColumn)

\* the ids and texts the loader resolved for the k-th data row
ResolvedId(k) == OrEmptyTrim(Get(arr[k], IdKey(TrimmedHeader, LowerHeader)))
ResolvedText(k) == OrEmptyTrim(Get(arr[k], TextKey(TrimmedHeader, LowerHeader)))

\* the values the filter accepts, in lower case
AcceptedWords == {<<"1">>, <<"t","r","u","e">>, <<"y","e","s">>, <<"y">>}

\* the data rows that pass: id and text present and, when an enabled column exists,
\* an accepted value in it
PassingRows ==
  {k \in 1..Len(DataRows) :
     /\ ResolvedId(k) # <<>> /\ ResolvedText(k) # <<>>
     /\ EnabledColumn # 0 => ToLowerCase(CellOf(DataRows[k], EnabledColumn)) \in AcceptedWords}

\* C6: when a header named enabled, include, use or active exists (the first present in
\* that priority order is the enabled role), a data row is retained only if its trimmed
\* value in that column is one of 1, true, yes, y in any letter case, and is dropped
\* otherwise even when id and text are non-empty; with no such header no row is dropped
\* for this reason.
C6_EnabledFilter ==
  Decoded => Len(narrations) = Cardinality(PassingRows)

\* whether f, from positions of the table to data rows, keeps the order of the rows and
\* gives each Record a row that holds its id and its text among its trimmed cells
FromRowsInOrder(f) ==
  /\ \A j, k \in DOMAIN f : j < k => f[j] < f[k]
  /\ \A k \in DOMAIN f :
       LET cells == {CellOf(DataRows[f[k]], c) : c \in 1..Len(DataRows[f[k]])}
       IN narrations[k][S_narration_id] \in cells /\ narrations[k][S_narration_text] \in cells

\* C7: every Record of the Decoded Table has an id and a text that are both non-empty
\* after trimming, whatever the other columns hold, and the retained Records appear in
\* the same relative order as their rows in the input text.
C7_NonEmptyInOrder ==
  ppc = "loaded" =>
    /\ \A k \in 1..Len(narrations) :
         /\ Trim(narrations[k][S_narration_id]) # <<>>
         /\ Trim(narrations[k][S_narration_text]) # <<>>
    /\ narrations # <<>> =>
         \E f \in [1..Len(narrations) -> 1..Len(DataRows)] : FromRowsInOrder(f)

\* some row was retained and a row with a blank id, though its third column is not empty, was not
C7_Witness ==
  /\ Decoded /\ Len(narrations) >= 1 /\ Len(narrations) < Len(DataRows)
  /\ \E r \in 1..Len(DataRows) : CellOf(DataRows[r], 1) = <<>> /\ CellOf(DataRows[r], 3) # <<>>

\* the last column (1-based) whose trimmed header is the name
LastColumnNamed(name) ==
  CHOOSE k \in 1..Len(TrimmedHeader) :
    TrimmedHeader[k] = name /\ \A j \in (k + 1)..Len(TrimmedHeader) : TrimmedHeader[j] # name

HeaderOnly(t) ==
  /\ t # <<>>
  /\ \A k \in 1..Len(t) :
       t[k] \in {LF, CR} => (k = Len(t) \/ (k = Len(t) - 1 /\ t[k] = CR /\ t[k + 1] = LF))

\* C9: decoding empty input text, or text that holds only a header row (with or without
\* a final newline), yields an empty Decoded Table and raises no error.
C9_EmptyTable ==
  (ppc = "loaded" /\ (text = <<>> \/ HeaderOnly(text))) => (narrations = <<>> /\ ~raised)

\* a header row of several columns with a final newline was decoded to the empty table
C9_Witness ==
  /\ ppc = "loaded" /\ HeaderOnly(text) /\ text[Len(text)] = LF
  /\ Len(p.rows) = 1 /\ Len(p.rows[1]) >= 2 /\ narrations = <<>>

\* the empty text was decoded to the empty table
C9_WitnessEmpty == ppc = "loaded" /\ text = <<>> /\ p.rows = <<>> /\ narrations = <<>>

(* ===================== properties of the session ===================== *)
\* the positions in posts of the POSTs of a kind
PostsOf(kind) == {k \in 1..Len(posts) : posts[k].kind = kind}

\* on_finish has run to its end
Finished == fin \in {"submitted", "saved"}

\* C11: when the session finishes, either the final POST is fulfilled and no local file is
\* saved, or the final POST is rejected and the records written are saved as a local CSV
\* file; on_finish never ends with neither, and starts with the end of the timeline.
C11_FinalPostOrLocalSave ==
  /\ Cardinality(PostsOf("final")) <= 1
  /\ (at = TimelineLength) = (fin # "idle")
  /\ ~Finished => saved = <<>>
  /\ Finished =>
       \E k \in PostsOf("final") :
         \/ fin = "submitted" /\ posts[k].state = "fulfilled" /\ saved = <<>>
         \/ /\ fin = "saved" /\ posts[k].state = "rejected"
            /\ Len(saved) = 1 /\ saved[1].format = "csv" /\ saved[1].records = data

\* a session of two trials ended with a rejected final POST and the two records in a file
C11_Witness ==
  /\ fin = "saved" /\ Len(data) = 2 /\ Len(saved) = 1 /\ saved[1].records = data
  /\ \E k \in PostsOf("final") : posts[k].state = "rejected"

\* the records carried by the autosave POSTs, in the order the POSTs were issued
RECURSIVE AutosavedFrom(_)
AutosavedFrom(k) ==
  IF k > Len(posts) THEN <<>>
  ELSE (IF posts[k].kind = "autosave" THEN <<posts[k].body.record>> ELSE <<>>)
         \o AutosavedFrom(k + 1)

\* a step that writes: one record more, one POST more, an autosave carrying that record
WriteThenAutosave ==
  /\ data' = Append(data, data'[Len(data')])
  /\ Len(posts') = Len(posts) + 1
  /\ SubSeq(posts', 1, Len(posts)) = posts
  /\ posts'[Len(posts')].kind = "autosave"
  /\ posts'[Len(posts')].body.record = data'[Len(data')]

\* C12: data is sent twice: every accepted Next click writes exactly one record and then
\* issues exactly one autosave POST carrying that record, and the final POST carries all
\* the records written during the session, in the order written.
C12_SentTwice ==
  /\ [](AutosavedFrom(1) = data)
  /\ [](\A k \in PostsOf("final") : posts[k].body.records = data)
  /\ [](Finished => Cardinality(PostsOf("final")) = 1)
  /\ [][data' # data => WriteThenAutosave]_vars
  /\ [][Cardinality(PostsOf("autosave"))' # Cardinality(PostsOf("autosave")) => data' # data]_vars

\* two records were written and autosaved, the second differing from the first, and the
\* final POST carries both
C12_Witness ==
  /\ Len(data) = 2 /\ Cardinality(PostsOf("autosave")) = 2
  /\ data[1].all_labels # data[2].all_labels
  /\ \E k \in PostsOf("final") : posts[k].body.records = data

PermutationOfTable(a) ==
  /\ Len(a) = Len(narrations)
  /\ \A x \in 1..Len(narrations) : Cardinality({k \in 1..Len(a) : a[k] = x}) = 1

\* the steps of shuffle and of seededShuffle: the copy is made, one iteration, the return
LoopEntered == m.pc = "main" /\ m'.pc = "loop"
LoopIteration == m.pc = "loop" /\ m'.pc = "loop" /\ m' # m
LoopLeft == m.pc = "loop" /\ m'.pc = "run"

\* a with the elements at the 0-based indices i and j exchanged
Exchanged(a, i, j) == [a EXCEPT ![i + 1] = a[j + 1], ![j + 1] = a[i + 1]]

TrialsPassed ==
  IF at < FirstTrialAt THEN 0 ELSE IF at < EndAt THEN at - FirstTrialAt ELSE N_TRIALS

\* the k-th record is the record of the k-th item of the plan
RecordOfItem(k) ==
  /\ data[k].trial_index = k
  /\ data[k].n_trials_total = N_TRIALS
  /\ data[k].narration_id = narrations[items[k]][S_narration_id]
  /\ data[k].narration_text = narrations[items[k]][S_narration_text]

\* C15: the presentation loop shows one trial per Session Plan item in plan order: the
\* k-th record written has trial_index k and the id and text of the k-th plan item, no item
\* is skipped or recorded twice, a trial is passed only by the Next click that writes its
\* record (never by a key), and when the session finishes the number of records written
\* equals the plan length N_TRIALS.
C15_OneTrialPerItem ==
  /\ [](Len(data) = TrialsPassed)
  /\ [](\A k \in 1..Len(data) : RecordOfItem(k))
  /\ [](fin # "idle" => Len(data) = N_TRIALS)
  /\ [][at' # at => at' = at + 1]_vars
  /\ [][(at >= FirstTrialAt /\ at < EndAt /\ at' # at) => data' # data]_vars

\* a session over a plan of two items in the reverse of the table's order has finished
C15_Witness ==
  /\ fin # "idle" /\ items = <<2, 1>> /\ Len(data) = 2
  /\ data[1].narration_id # data[2].narration_id

(* ========================= the memory rating ========================= *)
\* C16: the memory rating is single-choice: after any sequence of check and uncheck events
\* on the seven memory boxes at most one is checked, and every record written has a
\* memory_rating that is an integer in 1..7, the value of the one box checked when Next
\* was clicked.
C16_SingleChoiceRating ==
  /\ [](dom.mem \subseteq MemValues /\ Cardinality(dom.mem) <= 1)
  /\ [](\A k \in 1..Len(data) : data[k].memory_rating \in 1..7)
  /\ [][data' # data => dom.mem = {data'[Len(data')].memory_rating}]_vars

\* two records were written, the first with box 1 checked, the second with box 7
C16_Witness ==
  /\ Len(data) = 2 /\ data[1].memory_rating = 1 /\ data[2].memory_rating = 7

(* ========================== rejected clicks ========================== *)
\* the Next handler showed one of its alerts: the click is rejected
ClickRejected == alerted = "none" /\ alerted' # "none"

\* C17: a Next click that is rejected, because no category is selected or entered or
\* because no memory rating is selected, changes nothing: no record is written, no autosave
\* POST is issued, the trial does not advance, and the label bank is as before the click.
C17_RejectedClickChangesNothing ==
  [][ClickRejected => UNCHANGED <<data, posts, at, dom, labelBank>>]_vars

(* =========================== the label bank ========================== *)
\* the labels of the all_labels of the records written from the k-th on, in order
RECURSIVE LabelsFrom(_)
LabelsFrom(k) ==
  IF k > Len(data) THEN <<>>
  ELSE Split(data[k].all_labels, Comma) \o LabelsFrom(k + 1)

\* the labels of the records written so far, each once, in first-seen order
FirstSeen == FirstOccurrences(LabelsFrom(1), <<>>)

NoDuplicateLabel == \A j, k \in 1..Len(labelBank) : labelBank[j] = labelBank[k] => j = k

\* the bank only grows: what it held stays, in place
BankGrows ==
  /\ Len(labelBank') >= Len(labelBank)
  /\ SubSeq(labelBank', 1, Len(labelBank)) = labelBank

\* C18: in every reachable state the label bank has no duplicate label, only grows, and
\* equals in first-seen order the union of the all_labels of the records written so far;
\* the label_bank_snapshot of each record is the bank at the moment the record was written.
C18_LabelBank ==
  /\ [](NoDuplicateLabel)
  /\ [](labelBank = FirstSeen)
  /\ [][BankGrows]_vars
  /\ [][data' # data => data'[Len(data')].label_bank_snapshot = Join(labelBank')]_vars

(* ============================== autosave ============================= *)
\* the outcomes of the autosave POSTs, in the order the POSTs were issued
RECURSIVE AutosaveStatesFrom(_)
AutosaveStatesFrom(k) ==
  IF k > Len(posts) THEN <<>>
  ELSE (IF posts[k].kind = "autosave" THEN <<posts[k].state>> ELSE <<>>)
         \o AutosaveStatesFrom(k + 1)

\* the bodies of the final POSTs issued
FinalBodies == {posts[k].body : k \in PostsOf("final")}

\* a pending autosave POST is fulfilled or rejected in this step
AutosaveSettles ==
  \E k \in PostsOf("autosave") : posts[k].state = "pending" /\ posts'[k].state # "pending"

\* C19: autosave is fire-and-forget: a trial finishes without waiting for its autosave
\* POST to settle, so autosave POSTs settle in any interleaving with later trials and with
\* the final upload; no autosave outcome changes the records written, blocks or repeats a
\* trial, triggers the local CSV download, or changes the content of the final payload.
C19_FireAndForget ==
  /\ [][data' # data =>
          at' = at + 1 /\ posts'[Len(posts')].kind = "autosave"
                       /\ posts'[Len(posts')].state = "pending"]_vars
  /\ [][AutosaveSettles =>
          /\ UNCHANGED <<data, at, dom, labelBank, alerted, fin, saved>>
          /\ FinalBodies' = FinalBodies]_vars

\* the session was submitted while the first autosave was still pending and the second
\* had been rejected, and no file was saved
C19_Witness ==
  /\ fin = "submitted" /\ saved = <<>>
  /\ AutosaveStatesFrom(1) = <<"pending", "rejected">>

====
